---- MODULE Spec2Model ----
(***************************************************************************)
(* State-machine model of the Zaber WDI autofocus device adapter           *)
(* (DeviceAdapters/Zaber/WdiAutofocus.cpp, WdiAutofocus.h).                *)
(*                                                                         *)
(* The adapter keeps its configuration in plain fields, opens the device   *)
(* connection lazily (ZaberBase::ensureConnected), and wraps every device  *)
(* interaction in ZaberBase::handleException.  Every public method and     *)
(* every property handler is one action.  The external motion library and  *)
(* the device are the environment: each call into them may fail, which an  *)
(* action draws as its input `f` (the first library call that throws).     *)
(*                                                                         *)
(* The same module models the Python camera bridge CPyCamera (second part  *)
(* of the sources): host threads call into the bridge, which reads and     *)
(* writes the attributes of a Python camera object under PyLock.           *)
(***************************************************************************)
EXTENDS Integers, Sequences, FiniteSets, TLC

VARIABLES
    initialized_,              \* ZaberBase::initialized_
    connection_,               \* ZaberBase::connection_ (the ConnectionState)
    port_,                     \* ZaberBase::port_ (Zaber serial port)
    wdiHost_, wdiPort_,        \* WDI endpoint
    focusAddress_, focusAxis_, \* focus stage selector
    objectiveTurretAddress_,   \* optional turret device
    limitMin_, limitMax_,      \* soft limits [mm]
    provider_, autofocus_,     \* library handles built by onNewConnection
    paired,                    \* autofocus_ was built on the provider_ now held
    limitProps,                \* "Limit Min/Max [mm]" properties exist
    devLimitMin, devLimitMax,  \* the device's limits, native units
    writes,                    \* number of property writes so far
    lastOp,                    \* the call the host has not yet returned from
    lastArg,                   \* the value it was given / handed back
    lastErr,                   \* the exception thrown inside it, if any
    lastRet,                   \* the code it returned
    lastBool,                  \* the boolean it reported
    lastScore,                 \* the focus score it reported
    devLog,                    \* the library calls it issued, in order
    lookups,                   \* getDevice addresses of its onNewConnection
    connects,                  \* times it ran onNewConnection
    pre,                       \* adapter state when it was called
    object_,                   \* CPyCamera: attributes of the Python camera object
    lastImage_,                \* CPyCamera::lastImage_
    pyLock,                    \* thread holding PyLock, 0 when free
    call,                      \* per host thread: the camera call it is in
    committed,                 \* ROI left by the last completed ROI write
    lastWrite                  \* the request of that write

wdi == <<initialized_, connection_, port_, wdiHost_, wdiPort_, focusAddress_,
         focusAxis_, objectiveTurretAddress_, limitMin_, limitMax_, provider_,
         autofocus_, paired, limitProps, devLimitMin, devLimitMax, writes, lastOp,
         lastArg, lastErr, lastRet, lastBool, lastScore, devLog, lookups,
         connects, pre>>

camera == <<object_, lastImage_, pyLock, call, committed, lastWrite>>

vars == <<initialized_, connection_, port_, wdiHost_, wdiPort_, focusAddress_,
          focusAxis_, objectiveTurretAddress_, limitMin_, limitMax_, provider_,
          autofocus_, paired, limitProps, devLimitMin, devLimitMax, writes, lastOp,
          lastArg, lastErr, lastRet, lastBool, lastScore, devLog, lookups,
          connects, pre, object_, lastImage_, pyLock, call, committed, lastWrite>>

config == <<port_, wdiHost_, wdiPort_, focusAddress_, focusAxis_,
            objectiveTurretAddress_>>
limits == <<limitMin_, limitMax_>>
handles == <<connection_, provider_, autofocus_, paired>>
device == <<devLimitMin, devLimitMax>>

----------------------------------------------------------------------------
(* Bounds and input domains *)

MaxWrites == 2

xLdaNativePerMm == 1000000

HostValues == {"Undefined", "wdi.local"}
WdiPortValues == {27, 28}
SerialPortValues == {"Undefined", "COM3"}
AddressInputs == {0, 1, 2, 100}
AxisInputs == {-2, 0, 1, 100}
TurretInputs == {-1, 0, 2, 100}
LimitInputs == {1, 25}
RawValues == {-2048, 512, -16777219}

\* The first library call that throws during an operation.
ConnectFaults == {"getConnection", "openTcp", "getDevice", "getTurret"}
Faults == {"none"} \cup ConnectFaults \cup {"cmd1", "cmd2", "cmd3", "updateStatus"}

\* abs leaving the sign in place.
AbsKeepsSign(x) == x

\* abs(position)
Abs(x) == IF x < 0 THEN -x ELSE x

\* positionInt[0] / 1024.0f converts the int to a float first: a float holds
\* 24 significant bits, so a magnitude above 2^24 is rounded to the nearest
\* multiple of its unit in the last place, ties to the even multiple.  The
\* division by 1024 and the widening to double are exact; the score is kept
\* as the numerator over 1024.
FloatMantissa == 16777216
RECURSIVE Ulp(_)
Ulp(m) == IF m < FloatMantissa THEN 1 ELSE 2 * Ulp(m \div 2)
ToFloat(n) ==
    LET m == IF n < 0 THEN -n ELSE n
        u == Ulp(m)
        q == m \div u
        r == m % u
        f == IF 2 * r > u \/ (2 * r = u /\ q % 2 = 1) THEN (q + 1) * u ELSE q * u
    IN IF n < 0 THEN -f ELSE f

\* The scale factor of another unit (micrometres) in place of the native one.
ToNativeThousand(mm) == mm * 1000

\* Limits are held in mm and sent in native units.
ToNative(mm) == mm * xLdaNativePerMm
FromNative(native) == native \div xLdaNativePerMm

----------------------------------------------------------------------------
(* Return codes and exceptions.  handleException turns an exception of the *)
(* motion library into a non-OK device code.                               *)

DEVICE_OK == "DEVICE_OK"
ConnectionError == "ConnectionError"
DeviceCommunicationError == "DeviceCommunicationError"
ConfigurationError == "ConfigurationError"
UpdateStatusError == "UpdateStatusError"
NoException == "none"
NoCode == "n/a"     \* the operation returns a bool, not a code

handleException(err) == IF err = NoException THEN DEVICE_OK ELSE err

----------------------------------------------------------------------------
(* Property limits declared by the constructor.  SetPropertyLimits is the  *)
(* host framework's: a later call for the same property replaces the       *)
(* limits of an earlier one; a property never named has none.              *)

PropFocusAddress == "Focus Stage Device Number"
PropFocusAxis == "Focus Stage Axis Number"
PropTurretAddress == "Objective Turret Device Number"
LimitedProps == {PropFocusAddress, PropFocusAxis, PropTurretAddress}

NoLimits == [p \in LimitedProps |-> [limited |-> FALSE, lo |-> 0, hi |-> 0]]
SetPropertyLimits(tbl, name, lo, hi) ==
    [tbl EXCEPT ![name] = [limited |-> TRUE, lo |-> lo, hi |-> hi]]

\* WdiAutofocus::WdiAutofocus, the three SetPropertyLimits calls in order.
ConstructorLimits ==
    SetPropertyLimits(
        SetPropertyLimits(
            SetPropertyLimits(NoLimits, PropFocusAddress, 1, 99),
            PropFocusAxis, 1, 99),
        PropFocusAxis, -1, 99)

\* The framework hands a written value to the handler only within limits.
WithinLimits(name, v) ==
    IF ConstructorLimits[name].limited
    THEN ConstructorLimits[name].lo <= v /\ v <= ConstructorLimits[name].hi
    ELSE TRUE

----------------------------------------------------------------------------
(* Library handles *)

NoConnection == [valid |-> FALSE, port |-> "Undefined"]
NoProvider == [valid |-> FALSE, host |-> "Undefined", port |-> 0]
NoAutofocus ==
    [valid |-> FALSE, conn |-> NoConnection, providerId |-> NoProvider,
     focusAddress |-> 0, focusAxis |-> 0, hasTurret |-> FALSE, turret |-> 0]

\* ConnectionState of the spec
Connected == connection_.valid

\* Address 0 taken for a turret.
HasTurretNonNegative(address) == address >= 0

\* The handles a connection established now would consist of.
HasTurret(address) == address > 0

FreshConnection == [valid |-> TRUE, port |-> port_]
FreshProvider == [valid |-> TRUE, host |-> wdiHost_, port |-> wdiPort_]
FreshAutofocus ==
    [valid |-> TRUE, conn |-> FreshConnection, providerId |-> FreshProvider,
     focusAddress |-> focusAddress_, focusAxis |-> focusAxis_,
     hasTurret |-> HasTurret(objectiveTurretAddress_),
     turret |-> IF HasTurret(objectiveTurretAddress_)
                THEN objectiveTurretAddress_ ELSE 0]

\* onNewConnection catching a failed lookup itself: autofocus_ is left as it
\* was and the caller sees no exception.
onNewConnectionSwallows(f) ==
    IF f = "openTcp"
    THEN [provider |-> provider_, autofocus |-> autofocus_, paired |-> paired,
          lookups |-> <<>>, err |-> ConnectionError]
    ELSE IF f = "getDevice"
    THEN [provider |-> FreshProvider, autofocus |-> autofocus_, paired |-> FALSE,
          lookups |-> <<focusAddress_>>, err |-> NoException]
    ELSE [provider |-> FreshProvider, autofocus |-> FreshAutofocus, paired |-> TRUE,
          lookups |-> IF HasTurret(objectiveTurretAddress_)
                      THEN <<focusAddress_, objectiveTurretAddress_>>
                      ELSE <<focusAddress_>>,
          err |-> NoException]

\* onNewConnection without its last statement: the provider is replaced and
\* the devices are looked up, but autofocus_ is not rebuilt.
onNewConnectionProviderOnly(f) ==
    IF f = "openTcp"
    THEN [provider |-> provider_, autofocus |-> autofocus_, paired |-> paired,
          lookups |-> <<>>, err |-> ConnectionError]
    ELSE IF f = "getDevice"
    THEN [provider |-> FreshProvider, autofocus |-> autofocus_, paired |-> FALSE,
          lookups |-> <<focusAddress_>>, err |-> ConnectionError]
    ELSE IF HasTurret(objectiveTurretAddress_) /\ f = "getTurret"
    THEN [provider |-> FreshProvider, autofocus |-> autofocus_, paired |-> FALSE,
          lookups |-> <<focusAddress_, objectiveTurretAddress_>>,
          err |-> ConnectionError]
    ELSE [provider |-> FreshProvider, autofocus |-> autofocus_, paired |-> FALSE,
          lookups |-> IF HasTurret(objectiveTurretAddress_)
                      THEN <<focusAddress_, objectiveTurretAddress_>>
                      ELSE <<focusAddress_>>,
          err |-> NoException]

\* WdiAutofocus::onNewConnection with f the library call that throws:
\* provider_ is assigned before the device lookups, autofocus_ after them,
\* from the provider_ just assigned.
onNewConnection(f) ==
    IF f = "openTcp"
    THEN [provider |-> provider_, autofocus |-> autofocus_, paired |-> paired,
          lookups |-> <<>>, err |-> ConnectionError]
    ELSE IF f = "getDevice"
    THEN [provider |-> FreshProvider, autofocus |-> autofocus_, paired |-> FALSE,
          lookups |-> <<focusAddress_>>, err |-> ConnectionError]
    ELSE IF HasTurret(objectiveTurretAddress_) /\ f = "getTurret"
    THEN [provider |-> FreshProvider, autofocus |-> autofocus_, paired |-> FALSE,
          lookups |-> <<focusAddress_, objectiveTurretAddress_>>,
          err |-> ConnectionError]
    ELSE [provider |-> FreshProvider, autofocus |-> FreshAutofocus, paired |-> TRUE,
          lookups |-> IF HasTurret(objectiveTurretAddress_)
                      THEN <<focusAddress_, objectiveTurretAddress_>>
                      ELSE <<focusAddress_>>,
          err |-> NoException]

\* ZaberBase::ensureConnected: nothing when Connected; otherwise open the
\* connection and run onNewConnection; Disconnected again when that fails.
ensureConnected(f) ==
    IF Connected
    THEN [conn |-> connection_, provider |-> provider_, autofocus |-> autofocus_,
          paired |-> paired, lookups |-> <<>>, connects |-> 0, err |-> NoException]
    ELSE IF f = "getConnection"
    THEN [conn |-> NoConnection, provider |-> provider_, autofocus |-> autofocus_,
          paired |-> paired, lookups |-> <<>>, connects |-> 0,
          err |-> ConnectionError]
    ELSE LET r == onNewConnection(f) IN
         [conn |-> IF r.err = NoException THEN FreshConnection ELSE NoConnection,
          provider |-> r.provider, autofocus |-> r.autofocus, paired |-> r.paired,
          lookups |-> r.lookups, connects |-> 1, err |-> r.err]

\* ZaberBase::resetConnection
resetConnection == NoConnection

----------------------------------------------------------------------------
(* CPyCamera: the Python camera object, numpy images, host threads *)

NumThreads == 2
Threads == 1..NumThreads

DEVICE_INVALID_PROPERTY_VALUE == "DEVICE_INVALID_PROPERTY_VALUE"

\* Limits of the "top", "left", "width" and "height" properties.
LowerLimit == [top |-> 0, left |-> 0]
UpperLimit == [width |-> 4, height |-> 3]
GetPropertyLowerLimit(name) == LowerLimit[name]
GetPropertyUpperLimit(name) == UpperLimit[name]

\* The four attributes of the Python object that make up the ROI.
FullFrame ==
    [width |-> UpperLimit.width, height |-> UpperLimit.height,
     top |-> LowerLimit.top, left |-> LowerLimit.left]
NoROI == [width |-> 0, height |-> 0, top |-> 0, left |-> 0]

\* Requests of SetROI(x, y, xSize, ySize) and of SetBinning(binF).
ROIInputs ==
    {[x |-> 1, y |-> 1, xSize |-> 2, ySize |-> 2],
     [x |-> 0, y |-> 1, xSize |-> 65536, ySize |-> 65536],
     [x |-> 1, y |-> 0, xSize |-> 0, ySize |-> 2],
     [x |-> 1, y |-> 1, xSize |-> 0, ySize |-> 0]}
BinningInputs == {-1, 1, 2}

\* What object_.Call("read") can hand back: a Python error, an object that is
\* no numpy array, or an array of some rank, element type, layout and shape.
NoImage ==
    [kind |-> "null", ndim |-> 0, type |-> "none", contiguous |-> FALSE,
     dims |-> <<>>]
PyError == [NoImage EXCEPT !.kind = "error"]
NotArray == [NoImage EXCEPT !.kind = "object"]
Array(type, contiguous, dims) ==
    [kind |-> "ndarray", ndim |-> Len(dims), type |-> type,
     contiguous |-> contiguous, dims |-> dims]
ImageValues ==
    {PyError, NotArray,
     Array("uint16", TRUE, <<2, 2>>),
     Array("uint16", TRUE, <<UpperLimit.height, UpperLimit.width>>),
     Array("uint16", TRUE, <<UpperLimit.width, UpperLimit.height>>),
     Array("uint16", TRUE, <<65536, 65536>>),
     Array("uint8", TRUE, <<2, 2>>),
     Array("uint16", FALSE, <<2, 2>>),
     Array("uint16", TRUE, <<4>>),
     Array("uint16", TRUE, <<2, 2, 1>>)}

\* The camera call a host thread is in.  x, y, xSize, ySize are the
\* arguments of SetROI and the out-parameters of GetROI; k counts the
\* attribute accesses made so far; seen is the ROI found when PyLock was
\* taken.
NoCall ==
    [api |-> "idle", op |-> "idle", phase |-> "idle", k |-> 0,
     x |-> 0, y |-> 0, xSize |-> 0, ySize |-> 0, arg |-> 0, val |-> 0,
     ret |-> NoCode, buf |-> "null", seen |-> NoROI]
NoWrite == [api |-> "none", x |-> 0, y |-> 0, xSize |-> 0, ySize |-> 0]

----------------------------------------------------------------------------
(* State after construction *)

\* The host calls one operation at a time; between calls it is idle.
Idle == "idle"
Ready == lastOp = Idle

Snapshot ==
    [connected |-> Connected, initialized |-> initialized_,
     limitMin |-> limitMin_, limitMax |-> limitMax_, config |-> config,
     halfBuilt |-> (provider_.valid /\ ~paired)]
NoSnapshot ==
    [connected |-> FALSE, initialized |-> FALSE, limitMin |-> 0, limitMax |-> 0,
     config |-> <<>>, halfBuilt |-> FALSE]

Init ==
    /\ initialized_ = FALSE
    /\ connection_ = NoConnection
    /\ port_ = "Undefined"
    /\ wdiHost_ = "Undefined"
    /\ wdiPort_ = 27
    /\ focusAddress_ = 1
    /\ focusAxis_ = 1
    /\ objectiveTurretAddress_ = -1
    /\ limitMin_ = 0
    /\ limitMax_ = 25
    /\ provider_ = NoProvider
    /\ autofocus_ = NoAutofocus
    /\ paired = FALSE
    /\ limitProps = FALSE
    /\ devLimitMin = ToNative(1)
    /\ devLimitMax = ToNative(25)
    /\ writes = 0
    /\ lastOp = Idle
    /\ lastArg = 0
    /\ lastErr = NoException
    /\ lastRet = NoCode
    /\ lastBool = FALSE
    /\ lastScore = [num |-> 0, den |-> 1]
    /\ devLog = <<>>
    /\ lookups = <<>>
    /\ connects = 0
    /\ pre = NoSnapshot
    /\ object_ = FullFrame
    /\ lastImage_ = NoImage
    /\ pyLock = 0
    /\ call = [t \in Threads |-> NoCall]
    /\ committed = FullFrame
    /\ lastWrite = NoWrite

----------------------------------------------------------------------------
(* What every operation leaves behind: the handles ensureConnected left,   *)
(* and the record of the call.                                             *)

NotTouched ==
    [conn |-> connection_, provider |-> provider_, autofocus |-> autofocus_,
     paired |-> paired, lookups |-> <<>>, connects |-> 0, err |-> NoException]

\* A library call, made on the handles the operation leaves behind: no
\* operation touches provider_ or autofocus_ after its ensureConnected.
Call(cmd, arg) == [cmd |-> cmd, arg |-> arg]

\* The exception leaving a lambda that runs ensureConnected and then one
\* library call, the call throwing when f = k.
Thrown(c, f, k) ==
    IF c.err # NoException THEN c.err
    ELSE IF f = k THEN DeviceCommunicationError
    ELSE NoException

\* The library calls a lambda issued: none when ensureConnected threw.
Issued(c, calls) == IF c.err # NoException THEN <<>> ELSE calls

ScoreOps == {"GetCurrentFocusScore", "GetLastFocusScore"}
NoScore == [num |-> 0, den |-> 1]

Done(op, arg, c, err, ret, b, log) ==
    /\ connection_' = c.conn
    /\ provider_' = c.provider
    /\ autofocus_' = c.autofocus
    /\ paired' = c.paired
    /\ lookups' = c.lookups
    /\ connects' = c.connects
    /\ lastOp' = op
    /\ lastArg' = arg
    /\ lastErr' = err
    /\ lastRet' = ret
    /\ lastBool' = b
    /\ lastScore' = IF op \in ScoreOps
                    THEN [num |-> Abs(ToFloat(arg)), den |-> 1024]
                    ELSE NoScore
    /\ devLog' = log
    /\ pre' = Snapshot
    /\ UNCHANGED camera

\* The library calls an operation can reach from the current state: the
\* connection sequence is run only when Disconnected, the turret lookup only
\* with a turret configured.
Reachable(calls) ==
    IF Connected THEN calls \ ConnectFaults
    ELSE IF HasTurret(objectiveTurretAddress_) THEN calls
    ELSE calls \ {"getTurret"}

OneCallFaults == Reachable({"none", "cmd1"} \cup ConnectFaults)

----------------------------------------------------------------------------
(* Device API *)

\* Initialize without the early return on initialized_.
InitializeRepeats ==
    /\ Ready
    /\ \E f \in Reachable(Faults) :
           LET c == ensureConnected(f)
               err == IF c.err # NoException THEN c.err
                      ELSE IF f \in {"cmd1", "cmd2", "cmd3"}
                      THEN DeviceCommunicationError
                      ELSE NoException
               calls == IF f = "cmd1" THEN <<Call("getStatus", 0)>>
                        ELSE IF f = "cmd2"
                        THEN <<Call("getStatus", 0), Call("getLimitMin", 0)>>
                        ELSE <<Call("getStatus", 0), Call("getLimitMin", 0),
                               Call("getLimitMax", 0)>>
               ret == handleException(err)
               ret2 == IF f = "updateStatus" THEN UpdateStatusError ELSE DEVICE_OK
           IN /\ limitMin_' = IF c.err = NoException /\ f \notin {"cmd1", "cmd2"}
                              THEN FromNative(devLimitMin)
                              ELSE limitMin_
              /\ limitMax_' = IF err = NoException
                              THEN FromNative(devLimitMax)
                              ELSE limitMax_
              /\ limitProps' = (limitProps \/ ret = DEVICE_OK)
              /\ initialized_' = (ret = DEVICE_OK /\ ret2 = DEVICE_OK)
              /\ Done("Initialize", 0, c, err,
                      IF ret # DEVICE_OK THEN ret ELSE ret2,
                      FALSE, Issued(c, calls))
              /\ UNCHANGED <<config, device, writes>>

Initialize ==
    /\ Ready
    /\ \E f \in IF initialized_ THEN {"none"} ELSE Reachable(Faults) :
           IF initialized_
           THEN /\ Done("Initialize", 0, NotTouched, NoException, DEVICE_OK, FALSE, <<>>)
                /\ UNCHANGED <<initialized_, config, limits, limitProps, device,
                               writes>>
           ELSE LET c == ensureConnected(f)
                    err == IF c.err # NoException THEN c.err
                           ELSE IF f \in {"cmd1", "cmd2", "cmd3"}
                           THEN DeviceCommunicationError
                           ELSE NoException
                    calls == IF f = "cmd1" THEN <<Call("getStatus", 0)>>
                             ELSE IF f = "cmd2"
                             THEN <<Call("getStatus", 0), Call("getLimitMin", 0)>>
                             ELSE <<Call("getStatus", 0), Call("getLimitMin", 0),
                                    Call("getLimitMax", 0)>>
                    ret == handleException(err)
                    ret2 == IF f = "updateStatus" THEN UpdateStatusError ELSE DEVICE_OK
                IN /\ limitMin_' = IF c.err = NoException /\ f \notin {"cmd1", "cmd2"}
                                   THEN FromNative(devLimitMin)
                                   ELSE limitMin_
                   /\ limitMax_' = IF err = NoException
                                   THEN FromNative(devLimitMax)
                                   ELSE limitMax_
                   /\ limitProps' = (limitProps \/ ret = DEVICE_OK)
                   /\ initialized_' = (ret = DEVICE_OK /\ ret2 = DEVICE_OK)
                   /\ Done("Initialize", 0, c, err,
                           IF ret # DEVICE_OK THEN ret ELSE ret2,
                           FALSE, Issued(c, calls))
                   /\ UNCHANGED <<config, device, writes>>

Shutdown ==
    /\ Ready
    /\ /\ initialized_' = FALSE
       /\ Done("Shutdown", 0, NotTouched, NoException, DEVICE_OK, FALSE, <<>>)
       /\ UNCHANGED <<config, limits, limitProps, device, writes>>

Busy ==
    /\ Ready
    /\ \E f \in OneCallFaults, axisBusy \in BOOLEAN :
           LET c == ensureConnected(f)
               err == Thrown(c, f, "cmd1")
               ret == handleException(err)
               busy == IF err = NoException THEN axisBusy ELSE FALSE
           IN /\ Done("Busy", 0, c, err, NoCode, ret = DEVICE_OK /\ busy,
                      Issued(c, <<Call("isBusy", 0)>>))
              /\ UNCHANGED <<initialized_, config, limits, limitProps, device,
                             writes>>

----------------------------------------------------------------------------
(* Property handlers.  BeforeGet hands the field back; AfterSet stores the *)
(* written value, after resetConnection when initialized_.  The framework  *)
(* calls AfterSet only with a value inside the property's limits.          *)

Get(op, value) ==
    /\ Done(op, value, NotTouched, NoException, DEVICE_OK, FALSE, <<>>)
    /\ UNCHANGED <<initialized_, config, limits, limitProps, device, writes>>

\* The body shared by the six AfterSet branches: if (initialized_)
\* resetConnection(); the handler returns DEVICE_OK.
AfterSetConfig(op, arg) ==
    /\ writes < MaxWrites
    /\ writes' = writes + 1
    /\ Done(op, arg,
            [NotTouched EXCEPT !.conn = IF initialized_ THEN resetConnection
                                        ELSE connection_],
            NoException, DEVICE_OK, FALSE, <<>>)
    /\ UNCHANGED <<initialized_, limits, limitProps, device>>

WdiHostGetSet ==
    /\ Ready
    /\ \/ Get("WdiHostGetSet.BeforeGet", 0)
       \/ \E v \in HostValues :
              /\ wdiHost_' = v
              /\ AfterSetConfig("WdiHostGetSet", 0)
              /\ UNCHANGED <<port_, wdiPort_, focusAddress_, focusAxis_,
                             objectiveTurretAddress_>>

WdiPortGetSet ==
    /\ Ready
    /\ \/ Get("WdiPortGetSet.BeforeGet", wdiPort_)
       \/ \E v \in WdiPortValues :
              /\ wdiPort_' = v
              /\ AfterSetConfig("WdiPortGetSet", v)
              /\ UNCHANGED <<port_, wdiHost_, focusAddress_, focusAxis_,
                             objectiveTurretAddress_>>

PortGetSet ==
    /\ Ready
    /\ \/ Get("PortGetSet.BeforeGet", 0)
       \/ \E v \in SerialPortValues :
              /\ port_' = v
              /\ AfterSetConfig("PortGetSet", 0)
              /\ UNCHANGED <<wdiHost_, wdiPort_, focusAddress_, focusAxis_,
                             objectiveTurretAddress_>>

FocusAddressGetSet ==
    /\ Ready
    /\ \/ Get("FocusAddressGetSet.BeforeGet", focusAddress_)
       \/ \E v \in AddressInputs :
              /\ WithinLimits(PropFocusAddress, v)
              /\ focusAddress_' = v
              /\ AfterSetConfig("FocusAddressGetSet", v)
              /\ UNCHANGED <<port_, wdiHost_, wdiPort_, focusAxis_,
                             objectiveTurretAddress_>>

FocusAxisGetSet ==
    /\ Ready
    /\ \/ Get("FocusAxisGetSet.BeforeGet", focusAxis_)
       \/ \E v \in AxisInputs :
              /\ WithinLimits(PropFocusAxis, v)
              /\ focusAxis_' = v
              /\ AfterSetConfig("FocusAxisGetSet", v)
              /\ UNCHANGED <<port_, wdiHost_, wdiPort_, focusAddress_,
                             objectiveTurretAddress_>>

ObjectiveTurretAddressGetSet ==
    /\ Ready
    /\ \/ Get("ObjectiveTurretAddressGetSet.BeforeGet", objectiveTurretAddress_)
       \/ \E v \in TurretInputs :
              /\ WithinLimits(PropTurretAddress, v)
              /\ objectiveTurretAddress_' = v
              /\ AfterSetConfig("ObjectiveTurretAddressGetSet", v)
              /\ UNCHANGED <<port_, wdiHost_, wdiPort_, focusAddress_, focusAxis_>>

\* The framework refuses a value outside a property's limits: the handler
\* is not called and nothing is stored.
SetPropertyRejected ==
    /\ Ready
    /\ \E name \in LimitedProps, v \in AddressInputs \cup AxisInputs \cup TurretInputs :
           /\ ~WithinLimits(name, v)
           /\ Done("SetProperty", v, NotTouched, NoException, ConfigurationError,
                   FALSE, <<>>)
           /\ UNCHANGED <<initialized_, config, limits, limitProps, device, writes>>

\* LimitMinGetSet beginning like the configuration handlers,
\* with if (initialized_) resetConnection().
LimitMinGetSetResets ==
    /\ Ready
    /\ limitProps
    /\ \E newLimit \in LimitInputs :
           /\ writes < MaxWrites
           /\ writes' = writes + 1
           /\ limitMin_' = newLimit
           /\ Done("LimitMinGetSet", newLimit,
                   [NotTouched EXCEPT !.conn = IF initialized_ THEN resetConnection
                                               ELSE connection_],
                   NoException, DEVICE_OK, FALSE, <<>>)
           /\ UNCHANGED <<initialized_, config, limitMax_, limitProps, device>>

LimitMinGetSet ==
    /\ Ready
    /\ \/ limitProps /\ Get("LimitMinGetSet.BeforeGet", limitMin_)
       \/ \E newLimit \in LimitInputs, f \in OneCallFaults :
           /\ limitProps
           /\ LET update == limitMin_ # newLimit
                   c == IF update THEN ensureConnected(f) ELSE NotTouched
                   err == IF update THEN Thrown(c, f, "cmd1") ELSE NoException
                   log == IF update
                          THEN Issued(c, <<Call("setLimitMin", ToNative(newLimit))>>)
                          ELSE <<>>
               IN /\ writes < MaxWrites
                  /\ writes' = writes + 1
                  /\ limitMin_' = newLimit
                  /\ devLimitMin' = IF update /\ err = NoException
                                    THEN ToNative(newLimit)
                                    ELSE devLimitMin
                  /\ Done("LimitMinGetSet", newLimit, c, err,
                          handleException(err), FALSE, log)
                  /\ UNCHANGED <<initialized_, config, limitMax_, limitProps,
                                 devLimitMax>>

LimitMaxGetSet ==
    /\ Ready
    /\ \/ limitProps /\ Get("LimitMaxGetSet.BeforeGet", limitMax_)
       \/ \E newLimit \in LimitInputs, f \in OneCallFaults :
           /\ limitProps
           /\ LET update == limitMax_ # newLimit
                   c == IF update THEN ensureConnected(f) ELSE NotTouched
                   err == IF update THEN Thrown(c, f, "cmd1") ELSE NoException
                   log == IF update
                          THEN Issued(c, <<Call("setLimitMax", ToNative(newLimit))>>)
                          ELSE <<>>
               IN /\ writes < MaxWrites
                  /\ writes' = writes + 1
                  /\ limitMax_' = newLimit
                  /\ devLimitMax' = IF update /\ err = NoException
                                    THEN ToNative(newLimit)
                                    ELSE devLimitMax
                  /\ Done("LimitMaxGetSet", newLimit, c, err,
                          handleException(err), FALSE, log)
                  /\ UNCHANGED <<initialized_, config, limitMin_, limitProps,
                                 devLimitMin>>

----------------------------------------------------------------------------
(* AutoFocus API *)

\* FullFocus dropping the code handleException returns.
FullFocusSwallows ==
    /\ Ready
    /\ \E f \in OneCallFaults :
           LET c == ensureConnected(f)
               err == Thrown(c, f, "cmd1")
           IN /\ Done("FullFocus", 0, c, err, DEVICE_OK, FALSE,
                      Issued(c, <<Call("focusOnce", 1)>>))
              /\ UNCHANGED <<initialized_, config, limits, limitProps, device,
                             writes>>

FullFocus ==
    /\ Ready
    /\ \E f \in OneCallFaults :
           LET c == ensureConnected(f)
               err == Thrown(c, f, "cmd1")
           IN /\ Done("FullFocus", 0, c, err, handleException(err), FALSE,
                      Issued(c, <<Call("focusOnce", 1)>>))
              /\ UNCHANGED <<initialized_, config, limits, limitProps, device,
                             writes>>

IncrementalFocus ==
    /\ Ready
    /\ \E f \in OneCallFaults :
           LET c == ensureConnected(f)
               err == Thrown(c, f, "cmd1")
           IN /\ Done("IncrementalFocus", 0, c, err, handleException(err), FALSE,
                      Issued(c, <<Call("focusOnce", 0)>>))
              /\ UNCHANGED <<initialized_, config, limits, limitProps, device,
                             writes>>

\* ReadWdiPosition followed by score = abs(position).  rawValue is the
\* device's answer; position is not assigned when the read throws, so the
\* score is then made of whatever the variable held.
ReadScore(op) ==
    /\ Ready
    /\ \E f \in OneCallFaults, value \in RawValues :
           LET c == ensureConnected(f)
               err == Thrown(c, f, "cmd1")
               rawValue == value    \* when the read succeeds
               garbage == value     \* when it throws
               position == IF err = NoException THEN rawValue ELSE garbage
           IN /\ Done(op, position, c, err, handleException(err), FALSE,
                      Issued(c, <<Call("genericRead", 41)>>))
              /\ UNCHANGED <<initialized_, config, limits, limitProps, device, writes>>

GetCurrentFocusScore == ReadScore("GetCurrentFocusScore")

GetLastFocusScore == ReadScore("GetLastFocusScore")

SetContinuousFocusing ==
    /\ Ready
    /\ \E f \in OneCallFaults, state \in BOOLEAN :
           LET c == ensureConnected(f)
               err == Thrown(c, f, "cmd1")
               cmd == IF state THEN "startFocusLoop" ELSE "stopFocusLoop"
           IN /\ Done("SetContinuousFocusing", IF state THEN 1 ELSE 0, c, err,
                      handleException(err), FALSE, Issued(c, <<Call(cmd, 0)>>))
              /\ UNCHANGED <<initialized_, config, limits, limitProps, device,
                             writes>>

\* state is the caller's variable: it is assigned only when the read succeeds.
GetContinuousFocusing ==
    /\ Ready
    /\ \E f \in OneCallFaults, value \in BOOLEAN :
           LET c == ensureConnected(f)
               err == Thrown(c, f, "cmd1")
               axisBusy == value    \* the device's answer, when the read succeeds
               state == value       \* the caller's variable, when it throws
           IN /\ Done("GetContinuousFocusing", 0, c, err, handleException(err),
                      IF err = NoException THEN axisBusy ELSE state,
                      Issued(c, <<Call("isBusy", 0)>>))
              /\ UNCHANGED <<initialized_, config, limits, limitProps, device,
                             writes>>

IsContinuousFocusLocked ==
    /\ Ready
    /\ \E f \in OneCallFaults, inFocus \in BOOLEAN :
           LET c == ensureConnected(f)
               err == Thrown(c, f, "cmd1")
               ret == handleException(err)
               locked == IF err = NoException THEN inFocus ELSE FALSE
           IN /\ Done("IsContinuousFocusLocked", 0, c, err, NoCode,
                      ret = DEVICE_OK /\ locked,
                      Issued(c, <<Call("getStatus", 0)>>))
              /\ UNCHANGED <<initialized_, config, limits, limitProps, device,
                             writes>>

----------------------------------------------------------------------------
(* The host takes the results and is free to make its next call. *)

Return ==
    /\ ~Ready
    /\ lastOp' = Idle
    /\ lastArg' = 0
    /\ lastErr' = NoException
    /\ lastRet' = NoCode
    /\ lastBool' = FALSE
    /\ lastScore' = NoScore
    /\ devLog' = <<>>
    /\ lookups' = <<>>
    /\ connects' = 0
    /\ pre' = NoSnapshot
    /\ UNCHANGED <<initialized_, handles, config, limits, limitProps, device,
                   writes, camera>>

----------------------------------------------------------------------------

Next ==
    \/ Initialize
    \/ Shutdown
    \/ Busy
    \/ WdiHostGetSet
    \/ WdiPortGetSet
    \/ PortGetSet
    \/ FocusAddressGetSet
    \/ FocusAxisGetSet
    \/ ObjectiveTurretAddressGetSet
    \/ SetPropertyRejected
    \/ LimitMinGetSet
    \/ LimitMaxGetSet
    \/ FullFocus
    \/ IncrementalFocus
    \/ GetCurrentFocusScore
    \/ GetLastFocusScore
    \/ SetContinuousFocusing
    \/ GetContinuousFocusing
    \/ IsContinuousFocusLocked
    \/ Return

Spec == Init /\ [][Next]_vars

----------------------------------------------------------------------------
(* CPyCamera.  Sizes are unsigned 32-bit and are kept as four base-256     *)
(* digits, least significant first, so that products wrap as they do in    *)
(* the code; byte counts of arrays are kept in full.                       *)

Digits(n) ==
    <<n % 256, (n \div 256) % 256, (n \div 65536) % 256, (n \div 16777216) % 256>>

RECURSIVE ColumnFrom(_, _, _, _)
ColumnFrom(a, b, k, i) ==
    IF i > Len(a) THEN 0
    ELSE (IF (k + 1 - i) \in 1..Len(b) THEN a[i] * b[k + 1 - i] ELSE 0)
         + ColumnFrom(a, b, k, i + 1)

RECURSIVE MulFrom(_, _, _, _)
MulFrom(a, b, k, carry) ==
    IF k > Len(a) + Len(b) THEN <<>>
    ELSE LET t == ColumnFrom(a, b, k, 1) + carry
         IN <<t % 256>> \o MulFrom(a, b, k + 1, t \div 256)

\* The full product, and the product of unsigned operands.
Mul(a, b) == MulFrom(a, b, 1, 0)
MulUnsigned(a, b) == SubSeq(Mul(a, b), 1, 4)

ZeroExtend(d, n) == d \o [i \in 1..(n - Len(d)) |-> 0]

\* The number is below 2^31, the largest byte count a long holds everywhere.
FitsLong(d) == \A i \in 1..Len(d) : (i = 4 => d[i] < 128) /\ (i > 4 => d[i] = 0)

GetImageWidth == object_.width
GetImageHeight == object_.height
GetBitDepth == 16
GetImageBytesPerPixel == (GetBitDepth + 7) \div 8
GetImageBufferSize ==
    MulUnsigned(MulUnsigned(Digits(GetImageWidth), Digits(GetImageHeight)),
                Digits(GetImageBytesPerPixel))

\* Bytes of the data of a numpy array of 16-bit elements.
ArrayBytes(img) ==
    Mul(Mul(Digits(img.dims[1]), Digits(img.dims[2])), Digits(2))

\* The checks of GetImageBuffer on the object read back.
ImageAccepted(img, w, h) ==
    IF img.kind # "ndarray" THEN FALSE
    ELSE IF img.ndim # 2 \/ img.type # "uint16" \/ ~img.contiguous THEN FALSE
    ELSE LET nh == img.dims[1]
             nw == img.dims[2]
         IN ~(nw # w \/ nh # h)

\* SetROI without its PyLock.
LockingOpsNoSetROI == {"GetROI", "ClearROI", "GetImageBuffer"}

\* The functions that declare a PyLock, held until they return.
LockingOps == {"SetROI", "GetROI", "ClearROI", "GetImageBuffer"}

\* SetROI storing x as "top" and y as "left".
SetROIWritesSwapped(c) ==
    << <<"width", c.xSize>>, <<"height", c.ySize>>, <<"top", c.x>>,
       <<"left", c.y>> >>

\* The attribute writes of SetROI and of ClearROI, in order.
SetROIWrites(c) ==
    << <<"width", c.xSize>>, <<"height", c.ySize>>, <<"top", c.y>>,
       <<"left", c.x>> >>
ClearROIWrites ==
    << <<"width", GetPropertyUpperLimit("width")>>,
       <<"height", GetPropertyUpperLimit("height")>>,
       <<"top", GetPropertyLowerLimit("top")>>,
       <<"left", GetPropertyLowerLimit("left")>> >>

\* The attribute reads of GetROI, in order: out-parameter and attribute.
GetROIReads ==
    << <<"xSize", "width">>, <<"ySize", "height">>, <<"x", "left">>,
       <<"y", "top">> >>

\* SetBinning taking every factor.
SetBinningAny(binF) == DEVICE_OK

SetBinningCode(binF) ==
    IF binF = 1 THEN DEVICE_OK ELSE DEVICE_INVALID_PROPERTY_VALUE

\* A thread enters a function; one that declares a PyLock waits for it.
Enter(t, c) ==
    /\ call[t].phase = "idle"
    /\ call' = [call EXCEPT ![t] =
                   [c EXCEPT !.phase = IF c.op \in LockingOps THEN "wait"
                                       ELSE "run"]]
    /\ UNCHANGED <<object_, lastImage_, pyLock, committed, lastWrite>>

\* PyLock lock;
PyLock(t) ==
    /\ call[t].phase = "wait"
    /\ pyLock = 0
    /\ pyLock' = t
    /\ call' = [call EXCEPT ![t].phase = "run", ![t].seen = object_]
    /\ UNCHANGED <<object_, lastImage_, committed, lastWrite>>

Holds(t) == (call[t].op \in LockingOps) => (pyLock = t)

\* The next object_.Set of a function that writes the ROI.
WriteROI(t, sets) ==
    /\ call[t].phase = "run"
    /\ Holds(t)
    /\ call[t].k < Len(sets)
    /\ LET k == call[t].k + 1
           obj == [object_ EXCEPT ![sets[k][1]] = sets[k][2]]
           last == (k = Len(sets))
       IN /\ object_' = obj
          /\ call' = [call EXCEPT ![t].k = k,
                                  ![t].phase = IF last THEN "done" ELSE "run",
                                  ![t].ret = IF last THEN DEVICE_OK ELSE NoCode]
          /\ committed' = IF last THEN obj ELSE committed
          /\ lastWrite' = IF last
                          THEN [api |-> call[t].api, x |-> call[t].x,
                                y |-> call[t].y, xSize |-> call[t].xSize,
                                ySize |-> call[t].ySize]
                          ELSE lastWrite
    /\ UNCHANGED <<lastImage_, pyLock>>

SetROI ==
    /\ UNCHANGED wdi
    /\ \E t \in Threads :
           \/ \E r \in ROIInputs :
                  Enter(t, [NoCall EXCEPT
                               !.api = "SetROI",
                               !.op = IF r.xSize = 0 /\ r.ySize = 0
                                      THEN "ClearROI" ELSE "SetROI",
                               !.x = r.x, !.y = r.y,
                               !.xSize = r.xSize, !.ySize = r.ySize])
           \/ call[t].api = "SetROI" /\ PyLock(t)
           \/ /\ call[t].api = "SetROI"
              /\ call[t].op = "SetROI"
              /\ WriteROI(t, SetROIWrites(call[t]))
           \/ /\ call[t].api = "SetROI"
              /\ call[t].op = "ClearROI"
              /\ WriteROI(t, ClearROIWrites)

ClearROI ==
    /\ UNCHANGED wdi
    /\ \E t \in Threads :
           \/ Enter(t, [NoCall EXCEPT !.api = "ClearROI", !.op = "ClearROI"])
           \/ call[t].api = "ClearROI" /\ PyLock(t)
           \/ call[t].api = "ClearROI" /\ WriteROI(t, ClearROIWrites)

GetROI ==
    /\ UNCHANGED wdi
    /\ \E t \in Threads :
           \/ Enter(t, [NoCall EXCEPT !.api = "GetROI", !.op = "GetROI"])
           \/ call[t].api = "GetROI" /\ PyLock(t)
           \/ /\ call[t].api = "GetROI"
              /\ call[t].phase = "run"
              /\ Holds(t)
              /\ call[t].k < Len(GetROIReads)
              /\ LET k == call[t].k + 1
                     rd == GetROIReads[k]
                     last == (k = Len(GetROIReads))
                 IN call' = [call EXCEPT ![t] =
                                [@ EXCEPT ![rd[1]] = object_[rd[2]],
                                          !.k = k,
                                          !.phase = IF last THEN "done" ELSE "run",
                                          !.ret = IF last THEN DEVICE_OK
                                                  ELSE NoCode]]
              /\ UNCHANGED <<object_, lastImage_, pyLock, committed, lastWrite>>

GetImageBuffer ==
    /\ UNCHANGED wdi
    /\ \E t \in Threads :
           \/ Enter(t, [NoCall EXCEPT !.api = "GetImageBuffer",
                                      !.op = "GetImageBuffer"])
           \/ call[t].api = "GetImageBuffer" /\ PyLock(t)
           \/ /\ call[t].api = "GetImageBuffer"
              /\ call[t].phase = "run"
              /\ Holds(t)
              /\ \E read \in ImageValues :
                     LET CheckError == IF read = PyError THEN "PythonError"
                                       ELSE DEVICE_OK
                         image == IF read = PyError THEN NoImage ELSE read
                         w == GetImageWidth
                         h == GetImageHeight
                     IN /\ lastImage_' = image
                        /\ call' = [call EXCEPT
                               ![t].phase = "done",
                               ![t].buf = IF CheckError # DEVICE_OK THEN "null"
                                          ELSE IF ImageAccepted(image, w, h)
                                          THEN "data" ELSE "null"]
              /\ UNCHANGED <<object_, pyLock, committed, lastWrite>>

GetBinning ==
    /\ UNCHANGED wdi
    /\ \E t \in Threads :
           /\ call[t].phase = "idle"
           /\ call' = [call EXCEPT ![t] =
                          [NoCall EXCEPT !.api = "GetBinning", !.op = "GetBinning",
                                         !.phase = "done", !.val = 1]]
           /\ UNCHANGED <<object_, lastImage_, pyLock, committed, lastWrite>>

SetBinning ==
    /\ UNCHANGED wdi
    /\ \E t \in Threads, binF \in BinningInputs :
           /\ call[t].phase = "idle"
           /\ call' = [call EXCEPT ![t] =
                          [NoCall EXCEPT !.api = "SetBinning", !.op = "SetBinning",
                                         !.phase = "done", !.arg = binF,
                                         !.ret = SetBinningCode(binF)]]
           /\ UNCHANGED <<object_, lastImage_, pyLock, committed, lastWrite>>

\* The function returns: its PyLock, if it declared one, is released.
CameraReturn ==
    /\ UNCHANGED wdi
    /\ \E t \in Threads :
           /\ call[t].phase = "done"
           /\ call' = [call EXCEPT ![t] = NoCall]
           /\ pyLock' = IF pyLock = t THEN 0 ELSE pyLock
           /\ UNCHANGED <<object_, lastImage_, committed, lastWrite>>

NextCamera ==
    \/ SetROI
    \/ ClearROI
    \/ GetROI
    \/ GetImageBuffer
    \/ GetBinning
    \/ SetBinning
    \/ CameraReturn

SpecCamera == Init /\ [][NextCamera]_vars

----------------------------------------------------------------------------
(* Properties.  Each is stated about the call the host has not yet         *)
(* returned from: lastOp names it, pre is the adapter state it started in, *)
(* and the adapter fields are the state it left.                           *)

ConfigWriteOps ==
    {"WdiHostGetSet", "WdiPortGetSet", "PortGetSet", "FocusAddressGetSet",
     "FocusAxisGetSet", "ObjectiveTurretAddressGetSet"}
LimitWriteOps == {"LimitMinGetSet", "LimitMaxGetSet"}
FocusOps == {"FullFocus", "IncrementalFocus", "SetContinuousFocusing"}
StatusOps == {"Busy", "GetContinuousFocusing", "IsContinuousFocusLocked"}
BoolOps == {"Busy", "IsContinuousFocusLocked"}
ErrorCodes ==
    {ConnectionError, DeviceCommunicationError, ConfigurationError,
     UpdateStatusError}

\* The value a limit write changed, before and after.
WrittenLimitBefore ==
    IF lastOp = "LimitMinGetSet" THEN pre.limitMin ELSE pre.limitMax
WrittenLimitNow ==
    IF lastOp = "LimitMinGetSet" THEN limitMin_ ELSE limitMax_

\* The call ran ensureConnected.
UsedDevice ==
    \/ lastOp \in FocusOps \cup StatusOps \cup ScoreOps
    \/ lastOp = "Initialize" /\ ~pre.initialized
    \/ lastOp \in LimitWriteOps /\ WrittenLimitBefore # lastArg

\* All three handles are the ones the current configuration yields.
HandlesCurrent ==
    /\ connection_ = FreshConnection
    /\ provider_ = FreshProvider
    /\ autofocus_ = FreshAutofocus

\* C1: while a connection is established, a write to any connection-relevant
\* field leaves the adapter Disconnected, and the next operation that
\* completes on the device runs on handles built from the written values.
C1_ConfigWriteInvalidates ==
    /\ (lastOp \in ConfigWriteOps /\ pre.connected) => ~Connected
    /\ (UsedDevice /\ lastErr = NoException) => HandlesCurrent

\* C2: a focus command is only ever issued on handles built from the latest
\* written host, ports, addresses and axis, and a focus operation runs
\* onNewConnection at most once.
C2_FocusOnLatestConfig ==
    (lastOp \in FocusOps /\ devLog # <<>>) => (HandlesCurrent /\ connects <= 1)

\* C3: when Shutdown returns the adapter is Disconnected.
C3_ShutdownDisconnects == (lastOp = "Shutdown") => ~Connected

\* C4: Busy, GetContinuousFocusing and IsContinuousFocusLocked report false
\* and no error code whenever connecting or the device read failed.
C4_StatusQueriesFailSoft ==
    (lastOp \in StatusOps /\ lastErr # NoException) =>
        (lastBool = FALSE /\ lastRet \notin ErrorCodes)

\* C5: a failed ensureConnected leaves the adapter Disconnected and, from
\* every operation that returns a code, yields a connection error; an
\* operation entered Disconnected whose connection sequence does not fail
\* runs onNewConnection once and leaves the adapter Connected on handles
\* built from the current configuration.
C5_ConnectFailureAndRetry ==
    /\ (lastErr = ConnectionError) =>
           /\ ~Connected
           /\ ~pre.connected
           /\ lastRet = IF lastOp \in BoolOps THEN NoCode ELSE ConnectionError
    /\ (UsedDevice /\ ~pre.connected /\ lastErr # ConnectionError) =>
           /\ connects = 1
           /\ Connected
           /\ HandlesCurrent
           /\ Len(lookups) >= 1

C5_Witness ==
    /\ lastOp = "Initialize"
    /\ connects = 1
    /\ lastErr = ConnectionError
    /\ lastRet = ConnectionError
    /\ provider_.valid
    /\ ~autofocus_.valid
    /\ ~Connected

C7_LimitWriteKeepsState ==
    (lastOp \in LimitWriteOps) =>
        /\ Connected <=> pre.connected
        /\ ~pre.connected => devLog = <<>>

\* C7 amended: a limit write never invalidates a live connection; started
\* Disconnected with a value other than the one held it runs the connection
\* sequence, so that it ends Connected unless connecting failed; with the
\* value already held it leaves ConnectionState as it was; and a bound is
\* pushed only over a live connection.
C7_LimitWriteConnects ==
    (lastOp \in LimitWriteOps) =>
        /\ pre.connected => Connected
        /\ (~pre.connected /\ WrittenLimitBefore # lastArg) =>
               (Connected <=> lastErr # ConnectionError)
        /\ (~pre.connected /\ WrittenLimitBefore = lastArg) => ~Connected
        /\ (devLog # <<>>) => Connected

C7_Witness ==
    /\ lastOp = "LimitMinGetSet"
    /\ ~pre.connected
    /\ pre.limitMin # lastArg
    /\ connects = 1
    /\ Connected
    /\ Len(devLog) = 1
    /\ lastRet = DEVICE_OK

\* C8: FullFocus, IncrementalFocus, SetContinuousFocusing and the two score
\* reads return DEVICE_OK exactly when neither connecting nor the device
\* call failed, and then the device call was made.
C8_FocusErrorsPropagate ==
    (lastOp \in FocusOps \cup ScoreOps) =>
        /\ (lastRet = DEVICE_OK) <=> (lastErr = NoException)
        /\ (lastRet = DEVICE_OK) => (Len(devLog) = 1 /\ Connected)
        /\ lastRet \in ErrorCodes \cup {DEVICE_OK}

C8_Witness ==
    /\ lastOp = "FullFocus"
    /\ lastErr = DeviceCommunicationError
    /\ lastRet = DeviceCommunicationError
    /\ Len(devLog) = 1

\* C9: a connection sequence looks the turret device up if and only if
\* objectiveTurretAddress_ > 0, with exactly that address; with 0 or a
\* negative address the autofocus handle is built without a turret.
C9_TurretLookup ==
    /\ (connects = 1 /\ Connected) =>
           IF objectiveTurretAddress_ > 0
           THEN /\ lookups = <<focusAddress_, objectiveTurretAddress_>>
                /\ autofocus_.hasTurret
                /\ autofocus_.turret = objectiveTurretAddress_
           ELSE /\ lookups = <<focusAddress_>>
                /\ ~autofocus_.hasTurret
    /\ (objectiveTurretAddress_ <= 0) => Len(lookups) <= 1

C9_Witness ==
    /\ connects = 1
    /\ Connected
    /\ objectiveTurretAddress_ = 0
    /\ lookups = <<focusAddress_>>
    /\ ~autofocus_.hasTurret

\* C10: the focus device and axis numbers stay within [1,99] and the turret
\* device number within [-1,99].
C10_AddressBounds ==
    /\ focusAddress_ \in 1..99
    /\ focusAxis_ \in 1..99
    /\ objectiveTurretAddress_ \in (-1)..99

\* C11 as claimed: for every raw reading rawValue a score read that succeeds
\* reports exactly |rawValue| / 1024.
C11_ScoreIsExactMagnitude ==
    (lastOp \in ScoreOps /\ lastErr = NoException) =>
        /\ lastScore.den = 1024
        /\ lastScore.num = (IF lastArg < 0 THEN -lastArg ELSE lastArg)

\* C11 amended: a score read that succeeds makes one generic read at channel
\* 41 and reports |f| / 1024, f being rawValue rounded to a float: the score
\* is never negative, it is exactly |rawValue| / 1024 for every rawValue of
\* magnitude up to 2^24, and beyond that it differs from |rawValue| / 1024
\* by a relative error of at most 2^-24.  GetLastFocusScore reads afresh
\* like GetCurrentFocusScore.
C11_ScoreIsRoundedMagnitude ==
    (lastOp \in ScoreOps /\ lastErr = NoException) =>
        LET mag == IF lastArg < 0 THEN -lastArg ELSE lastArg
            off == IF lastScore.num < mag THEN mag - lastScore.num
                   ELSE lastScore.num - mag
        IN /\ devLog = <<[cmd |-> "genericRead", arg |-> 41]>>
           /\ lastRet = DEVICE_OK
           /\ lastScore.den = 1024
           /\ lastScore.num >= 0
           /\ (mag <= 16777216) => (lastScore.num = mag)
           /\ off <= mag \div 16777216

C11_Witness ==
    /\ lastOp = "GetLastFocusScore"
    /\ lastErr = NoException
    /\ lastArg = -16777219
    /\ lastScore = [num |-> 16777220, den |-> 1024]
    /\ Len(devLog) = 1

\* C12: an Initialize that fails, at whichever step, leaves the adapter as it
\* found it: initialized_ false, ConnectionState as before the call, and
\* limitMin_ and limitMax_ both with their previous values.
C12_FailedInitializeKeepsState ==
    (lastOp = "Initialize" /\ lastRet # DEVICE_OK) =>
        /\ ~initialized_
        /\ Connected <=> pre.connected
        /\ limitMin_ = pre.limitMin
        /\ limitMax_ = pre.limitMax

\* C14: once Initialize has succeeded, a limit write that returns DEVICE_OK
\* leaves the device holding the in-memory limit times 1000000.
C14_OkLimitWriteMatchesDevice ==
    (lastOp \in LimitWriteOps /\ initialized_ /\ lastRet = DEVICE_OK) =>
        /\ WrittenLimitNow = lastArg
        /\ (IF lastOp = "LimitMinGetSet" THEN devLimitMin ELSE devLimitMax)
               = WrittenLimitNow * 1000000

\* C13: an operation issues device calls only while Connected on a provider
\* handle and an autofocus handle built by one and the same completed
\* connection sequence; a connection sequence that failed after the provider
\* was opened leaves the adapter Disconnected, and the next operation that
\* reaches the device has rebuilt both handles first.
C13_HandlesFromOneConnection ==
    /\ Connected => paired
    /\ (devLog # <<>>) =>
           /\ Connected
           /\ paired
           /\ provider_.valid
           /\ autofocus_.valid
           /\ autofocus_.providerId = provider_
           /\ autofocus_.conn = connection_
    /\ (connects = 1 /\ lastErr = ConnectionError) => ~Connected
    /\ (pre.halfBuilt /\ devLog # <<>>) => (connects = 1 /\ ~pre.connected)

C13_Witness ==
    /\ pre.halfBuilt
    /\ lastOp = "FullFocus"
    /\ Len(devLog) = 1
    /\ connects = 1
    /\ paired
    /\ autofocus_.providerId = provider_

\* C15: Initialize called while initialized_ holds returns DEVICE_OK without
\* connecting or issuing a device call and leaves the configuration, the
\* limits, the handles and ConnectionState as they were; initialized_ becomes
\* true only in an Initialize in which connecting, the status read, both
\* limit reads and UpdateStatus all succeeded.
C15_InitializeIdempotent ==
    /\ (lastOp = "Initialize" /\ pre.initialized) =>
           /\ lastRet = DEVICE_OK
           /\ lastErr = NoException
           /\ devLog = <<>>
           /\ connects = 0
           /\ lookups = <<>>
           /\ initialized_
           /\ config = pre.config
           /\ limitMin_ = pre.limitMin
           /\ limitMax_ = pre.limitMax
           /\ Connected <=> pre.connected
    /\ (~Ready /\ initialized_ /\ ~pre.initialized) =>
           /\ lastOp = "Initialize"
           /\ lastErr = NoException
           /\ lastRet = DEVICE_OK
           /\ Connected
           /\ devLog = <<[cmd |-> "getStatus", arg |-> 0],
                         [cmd |-> "getLimitMin", arg |-> 0],
                         [cmd |-> "getLimitMax", arg |-> 0]>>
           /\ limitMin_ * 1000000 = devLimitMin
           /\ limitMax_ * 1000000 = devLimitMax
           /\ limitProps

C15_Witness ==
    /\ lastOp = "Initialize"
    /\ pre.initialized
    /\ ~pre.connected
    /\ pre.limitMin = 25
    /\ lastRet = DEVICE_OK
    /\ devLog = <<>>
    /\ ~Connected

----------------------------------------------------------------------------
(* Properties of CPyCamera, stated about the calls the host threads are in *)

ROIOps == {"SetROI", "GetROI", "ClearROI"}

\* The ROI a GetROI hands back through its out-parameters.
Got(t) ==
    [width |-> call[t].xSize, height |-> call[t].ySize,
     top |-> call[t].y, left |-> call[t].x]

MidWrite(t) ==
    call[t].api \in {"SetROI", "ClearROI"} /\ call[t].phase = "run"

\* C16: every attribute access of SetROI, ClearROI and GetROI is made by the
\* thread holding PyLock, so that outside a write the object holds the ROI
\* of one completed write, and a GetROI that has read its four elements
\* hands back either the complete ROI it found when it took the lock or the
\* complete ROI of the last completed write, never a mix.
C16_ROIAccessAtomic ==
    /\ \A t \in Threads :
           /\ (call[t].api \in ROIOps /\ call[t].phase \in {"run", "done"}) =>
                  pyLock = t
           /\ (call[t].api = "GetROI" /\ call[t].phase = "done") =>
                  (Got(t) = call[t].seen \/ Got(t) = committed)
    /\ (\A t \in Threads : ~MidWrite(t)) => (object_ = committed)

C16_Witness ==
    \E t, u \in Threads :
        /\ call[t].api = "GetROI"
        /\ call[t].phase = "done"
        /\ Got(t) = committed
        /\ committed # FullFrame
        /\ call[u].api = "SetROI"
        /\ call[u].phase = "wait"
        /\ pyLock = t

Returned(t) == call[t].api = "GetImageBuffer" /\ call[t].phase = "done"
MatchingImage ==
    /\ lastImage_.kind = "ndarray"
    /\ lastImage_.ndim = 2
    /\ lastImage_.contiguous
    /\ lastImage_.type = "uint16"
    /\ lastImage_.dims = <<GetImageHeight, GetImageWidth>>

\* C18: GetImageBuffer hands back a buffer only for a
\* 2-dimensional, C-contiguous array of 16-bit unsigned elements of
\* GetImageHeight by GetImageWidth, null on a read error or a mismatch, and
\* the bytes of every buffer handed back are GetImageBufferSize().
C18_BufferHasBufferSize ==
    \A t \in Threads :
        Returned(t) =>
            /\ (call[t].buf # "null") => MatchingImage
            /\ (lastImage_.kind # "ndarray") => (call[t].buf = "null")
            /\ (call[t].buf # "null") =>
                   (ArrayBytes(lastImage_) = ZeroExtend(GetImageBufferSize, 12))

\* What does hold of GetImageBuffer: the buffer handed back is that of a
\* matching array and has width * height * 2 bytes, of which
\* GetImageBufferSize() reports the low 32 bits; the two agree whenever the
\* number of bytes is below 2^31.
BufferOnlyIfMatching ==
    \A t \in Threads :
        Returned(t) =>
            /\ (call[t].buf # "null") => MatchingImage
            /\ (lastImage_.kind # "ndarray") => (call[t].buf = "null")
            /\ (call[t].buf # "null") =>
                   /\ ArrayBytes(lastImage_) =
                          Mul(Mul(Digits(object_.width), Digits(object_.height)),
                              Digits(2))
                   /\ GetImageBufferSize = SubSeq(ArrayBytes(lastImage_), 1, 4)
                   /\ FitsLong(ArrayBytes(lastImage_)) =>
                          (ArrayBytes(lastImage_)
                               = ZeroExtend(GetImageBufferSize, 12))

\* C19: GetBinning returns 1 in every state; SetBinning(1) returns
\* DEVICE_OK and SetBinning(b) with b other than 1 returns
\* DEVICE_INVALID_PROPERTY_VALUE; neither changes the camera object, the
\* last image or the lock.
C19_OnlyBinningOne ==
    [][\A t \in Threads :
          /\ (call[t].phase = "idle" /\ call'[t].api = "GetBinning") =>
                 /\ call'[t].phase = "done"
                 /\ call'[t].val = 1
                 /\ UNCHANGED <<object_, lastImage_, pyLock, committed, lastWrite>>
          /\ (call[t].phase = "idle" /\ call'[t].api = "SetBinning") =>
                 /\ call'[t].phase = "done"
                 /\ call'[t].ret = (IF call'[t].arg = 1 THEN DEVICE_OK
                                    ELSE DEVICE_INVALID_PROPERTY_VALUE)
                 /\ UNCHANGED <<object_, lastImage_, pyLock, committed,
                                lastWrite>>]_vars

C19_Witness ==
    \E t \in Threads :
        /\ call[t].api = "SetBinning"
        /\ call[t].phase = "done"
        /\ call[t].arg = 2
        /\ call[t].ret = DEVICE_INVALID_PROPERTY_VALUE

====
